---- MODULE Spec2Model ----
(***************************************************************************)
(* WhatsAppService (server/src/services/whatsapp.ts): the session          *)
(* supervisor (initialize, the connection.update handler, the reconnect    *)
(* timer, disconnect) and the message router (messages.upsert,             *)
(* handleMessage, sendMessage, askClaude), as one state machine.           *)
(*                                                                         *)
(* The transport library, the lookup collaborator and the backend process  *)
(* are the environment: every event they can deliver and every outcome of  *)
(* a call that the service awaits (resolve or reject) is a nondeterministic*)
(* choice.  A step of the model is one run of JavaScript code between two  *)
(* awaits (Node runs it without interleaving).                             *)
(***************************************************************************)
EXTENDS Integers, Sequences, FiniteSets, TLC

\* ------------------------------------------------------------- bounds

\* Stimuli the supervisor gets in one run: the caller's calls of initialize()
\* and disconnect(), and connection.update events.
MaxStimuli == 4

\* Messages the transport delivers in one run, over all messages.upsert
\* events of type 'notify'.
MaxMessages == 1

\* Messages the transport delivers in one run of the specification of
\* concurrent message handling.
MaxConcurrent == 2

\* Length of the part of an address before its suffix.
MaxUserLen == 3

\* ------------------------------------------------------------ constants

\* this.socket = null
NoSocket == 0

\* phoneNumber / qrCode absent (undefined / null)
Absent == "absent"

\* DisconnectReason.loggedOut and any other reason code of a close event
Reasons == {"loggedOut", "other"}

\* Socket ids: makeWASocket() results, numbered in creation order.  Every
\* creation follows an initialize() call that passed the guard, and every such
\* call follows a stimulus, so MaxStimuli ids are enough.
SockIds == 1..MaxStimuli

VARIABLES
    socket,        \* this.socket: NoSocket or the id of the held socket
    status,        \* this.status: [connected, phoneNumber]
    qrCode,        \* this.qrCode
    initializing,  \* this.initializing
    inflight,      \* initialize() calls suspended at `await useMultiFileAuthState`
    timers,        \* pending setTimeout(() => this.initialize(), 3000)
    subs,          \* subs[s]: sets of event handlers registered on socket s
    live,          \* sockets created and not yet closed (they deliver events)
    logouts,       \* logouts[s]: disconnect() calls suspended at `await socket.logout()` on s
    stimuli,       \* stimuli given so far
    caller,        \* history: "fresh" (disconnect() was never called), "disconnected"
                   \* (it was, and initialize() was not called since), "reinitialized"
    last,          \* history: the supervisor's last step
    onUserLookup,  \* this.onUserLookup is set
    onGetMcpConfig,\* this.onGetMcpConfig: whether it is set, and the path it returns
    received,      \* messages delivered so far in notify events
    tasks,         \* tasks[t]: the run of the messages.upsert handler on the t-th notify event
    dispatches     \* dispatches[d]: the d-th askClaude call: its child process, timer and promise

vars == <<socket, status, qrCode, initializing, inflight, timers, subs, live,
          logouts, stimuli, caller, last, onUserLookup, onGetMcpConfig,
          received, tasks, dispatches>>

supervisorVars == <<socket, status, qrCode, initializing, inflight, timers, subs,
                    live, logouts, caller, last>>

routerVars == <<onUserLookup, onGetMcpConfig, received, tasks, dispatches>>


\* private onGetMcpConfig: (() => string) | null = null
NoGenerator == [set |-> FALSE, path |-> << >>]

\* ---------------------------------------------------------------- state

\* private status: WhatsAppStatus = { connected: false }
EmptyStatus == [connected |-> FALSE, phoneNumber |-> Absent]

Init ==
    /\ socket = NoSocket
    /\ status = EmptyStatus
    /\ qrCode = Absent
    /\ initializing = FALSE
    /\ inflight = 0
    /\ timers = 0
    /\ subs = << >>
    /\ live = {}
    /\ logouts = [s \in SockIds |-> 0]
    /\ stimuli = 0
    /\ caller = "fresh"
    /\ last = "none"
    /\ onUserLookup = FALSE
    /\ onGetMcpConfig = NoGenerator
    /\ received = 0
    /\ tasks = << >>
    /\ dispatches = << >>

\* getStatus() without the test of connected.
getStatusUnmasked ==
    [connected   |-> status.connected,
     phoneNumber |-> status.phoneNumber,
     qrCode      |-> qrCode]

\* getStatus(): qrCode is reported only while not connected
getStatus ==
    [connected   |-> status.connected,
     phoneNumber |-> status.phoneNumber,
     qrCode      |-> IF status.connected THEN Absent ELSE qrCode]

isInitializing == initializing

\* The guard without its second test.
InitGuardSocketOnly == socket # NoSocket

\* The guard of initialize(): `if (this.socket || this.initializing) return;`
InitGuardBlocks == socket # NoSocket \/ initializing

\* initialize() up to its first await: a no-op when the guard blocks,
\* otherwise the flag is set and the call suspends loading the credentials.
InitializeEnter ==
    IF InitGuardBlocks
    THEN UNCHANGED <<initializing, inflight>>
    ELSE /\ initializing' = TRUE
         /\ inflight' = inflight + 1

Stimulus ==
    /\ stimuli < MaxStimuli
    /\ stimuli' = stimuli + 1

\* The caller calls initialize().
CallInitialize ==
    /\ Stimulus
    /\ InitializeEnter
    /\ caller' = IF caller = "fresh" THEN "fresh" ELSE "reinitialized"
    /\ last' = IF InitGuardBlocks THEN "initialize:noop" ELSE "initialize:start"
    /\ UNCHANGED <<socket, status, qrCode, timers, subs, live, logouts>>
    /\ UNCHANGED routerVars

\* The reconnect timer fires: () => this.initialize()
ReconnectTimer ==
    /\ timers > 0
    /\ timers' = timers - 1
    /\ InitializeEnter
    /\ last' = IF InitGuardBlocks THEN "timer:noop" ELSE "timer:start"
    /\ UNCHANGED <<socket, status, qrCode, subs, live, logouts, stimuli, caller>>
    /\ UNCHANGED routerVars

\* useMultiFileAuthState resolved: the rest of initialize() runs in one go:
\* makeWASocket, the three ev.on registrations, initializing = false.
InitializeResume ==
    /\ inflight > 0
    /\ inflight' = inflight - 1
    /\ LET s == Len(subs) + 1 IN
        /\ socket' = s
        /\ subs' = Append(subs, 1)
        /\ live' = live \cup {s}
    /\ initializing' = FALSE
    /\ last' = "resume"
    /\ UNCHANGED <<status, qrCode, timers, logouts, stimuli, caller>>
    /\ UNCHANGED routerVars

\* useMultiFileAuthState rejected or makeWASocket threw: initialize() rejects
\* and none of the lines after the failing one runs.
InitializeThrow ==
    /\ inflight > 0
    /\ inflight' = inflight - 1
    /\ last' = "throw"
    /\ UNCHANGED <<socket, status, qrCode, initializing, timers, subs, live,
                   logouts, stimuli, caller>>
    /\ UNCHANGED routerVars

\* The close branch without `this.socket = null`.
OnCloseKeepsHandle(reason) ==
    /\ status' = [connected |-> FALSE, phoneNumber |-> Absent]
    /\ IF reason # "loggedOut"
       THEN /\ initializing' = FALSE
            /\ timers' = timers + 1
            /\ UNCHANGED socket
       ELSE UNCHANGED <<socket, initializing, timers>>

\* connection === 'close': the status is reset and, unless the reason is
\* loggedOut, the handle is cleared and a reconnect is scheduled.
OnClose(reason) ==
    LET shouldReconnect == reason # "loggedOut" IN
    /\ status' = [connected |-> FALSE, phoneNumber |-> Absent]
    /\ IF shouldReconnect
       THEN /\ socket' = NoSocket
            /\ initializing' = FALSE
            /\ timers' = timers + 1
       ELSE UNCHANGED <<socket, initializing, timers>>

\* connection === 'open': connected, the pairing payload is dropped, the
\* phone number is read from this.socket?.user when there is one.
OnOpen(hasUser) ==
    /\ status' = [connected |-> TRUE,
                  phoneNumber |-> IF socket # NoSocket /\ hasUser
                                  THEN "me" ELSE status.phoneNumber]
    /\ qrCode' = Absent
    /\ UNCHANGED <<socket, initializing, timers>>

\* The connection.update handler, run on one update {connection,
\* lastDisconnect, qr}.  qr: the update carries a pairing payload; conn:
\* "close", "open" or "none"; reason: the status code of lastDisconnect;
\* hasUser: this.socket?.user is defined.
OnConnectionUpdate(qr, conn, reason, hasUser) ==
    LET qr1 == IF qr THEN "qr" ELSE qrCode
    IN  CASE conn = "close" -> qrCode' = qr1 /\ OnClose(reason)
          [] conn = "open"  -> OnOpen(hasUser)
          [] OTHER          -> /\ qrCode' = qr1
                               /\ UNCHANGED <<status, socket, initializing, timers>>

\* A live socket delivers a connection.update event; a socket that has
\* delivered its close event is closed and delivers nothing more.
ConnectionUpdate(s, qr, conn, reason, hasUser) ==
    /\ s \in live
    /\ qr \/ conn # "none"
    /\ Stimulus
    /\ OnConnectionUpdate(qr, conn, reason, hasUser)
    /\ live' = IF conn = "close" THEN live \ {s} ELSE live
    /\ last' = CASE conn = "close" /\ reason = "loggedOut" -> "close:loggedOut"
                  [] conn = "close" /\ reason # "loggedOut" -> "close:other"
                  [] conn = "open" -> "open"
                  [] OTHER -> "qr"
    /\ UNCHANGED <<inflight, subs, logouts, caller>>
    /\ UNCHANGED routerVars

\* disconnect() up to its await: with a socket it requests logout and
\* suspends; without one it clears the fields at once.
CallDisconnect ==
    /\ Stimulus
    /\ caller' = "disconnected"
    /\ last' = IF socket # NoSocket THEN "disconnect:logout" ELSE "disconnect:cleared"
    /\ IF socket # NoSocket
       THEN /\ logouts' = [logouts EXCEPT ![socket] = @ + 1]
            /\ UNCHANGED <<socket, status, qrCode, initializing>>
       ELSE /\ status' = EmptyStatus
            /\ qrCode' = Absent
            /\ initializing' = FALSE
            /\ UNCHANGED <<socket, logouts>>
    /\ UNCHANGED <<inflight, timers, subs, live>>
    /\ UNCHANGED routerVars

\* socket.logout() resolved: the transport has ended the session (a socket
\* still live delivers its close event with reason loggedOut to the handler
\* first), then disconnect() clears the fields.
LogoutResolve(s) ==
    /\ logouts[s] > 0
    /\ logouts' = [logouts EXCEPT ![s] = @ - 1]
    /\ live' = live \ {s}
    /\ socket' = NoSocket
    /\ status' = EmptyStatus
    /\ qrCode' = Absent
    /\ initializing' = FALSE
    /\ last' = "logout:resolved"
    /\ UNCHANGED <<inflight, timers, subs, stimuli, caller>>
    /\ UNCHANGED routerVars

\* socket.logout() rejected (the connection is already closed, the request
\* fails): disconnect() rejects and the lines after the await do not run.
LogoutReject(s) ==
    /\ logouts[s] > 0
    /\ logouts' = [logouts EXCEPT ![s] = @ - 1]
    /\ last' = "logout:rejected"
    /\ UNCHANGED <<socket, status, qrCode, initializing, inflight, timers,
                   subs, live, stimuli, caller>>
    /\ UNCHANGED routerVars

\* ------------------------------------------------- strings (handleMessage)

\* A string is a sequence of tokens: a token is one character or one of the
\* address suffixes, which the code only ever tests and removes as a whole.
DirectSuffix == "@s.whatsapp.net"

LidSuffix == "@lid"

GroupSuffix == "@g.us"

\* String.prototype.includes
Includes(str, tok) == \E i \in 1..Len(str) : str[i] = tok

\* String.prototype.endsWith
EndsWith(str, tok) == Len(str) > 0 /\ str[Len(str)] = tok

\* String.prototype.replace(tok, ''): the first occurrence is removed
Replace(str, tok) ==
    IF ~Includes(str, tok) THEN str
    ELSE LET i == CHOOSE k \in 1..Len(str) :
                    str[k] = tok /\ \A j \in 1..(k - 1) : str[j] # tok
         IN  SubSeq(str, 1, i - 1) \o SubSeq(str, i + 1, Len(str))

\* String.prototype.split(':')[0]: the text before the first colon
SplitFirst(str) ==
    IF ~Includes(str, ":") THEN str
    ELSE LET i == CHOOSE k \in 1..Len(str) :
                    str[k] = ":" /\ \A j \in 1..(k - 1) : str[j] # ":"
         IN  SubSeq(str, 1, i - 1)

RECURSIVE TrimStart(_)
TrimStart(str) ==
    IF str # << >> /\ Head(str) = " " THEN TrimStart(Tail(str)) ELSE str

RECURSIVE TrimEnd(_)
TrimEnd(str) ==
    IF str # << >> /\ str[Len(str)] = " "
    THEN TrimEnd(SubSeq(str, 1, Len(str) - 1)) ELSE str

\* String.prototype.trim
Trim(str) == TrimEnd(TrimStart(str))

\* The resolution with the device segment left in.
ResolvePhoneKeepsDevice(jid) ==
    IF EndsWith(jid, DirectSuffix) THEN Replace(jid, DirectSuffix)
    ELSE IF EndsWith(jid, LidSuffix) THEN Replace(jid, LidSuffix)
    ELSE << >>

\* The identity resolution of handleMessage: the phone of a jid, << >> for
\* `null` and for the empty string (both fail `!phone`).
ResolvePhone(jid) ==
    IF EndsWith(jid, DirectSuffix) THEN SplitFirst(Replace(jid, DirectSuffix))
    ELSE IF EndsWith(jid, LidSuffix) THEN Replace(jid, LidSuffix)
    ELSE << >>

\* handleMessage returns before any await for this message
IgnoredJid(jid) == jid = << >> \/ Includes(jid, GroupSuffix)

\* msg.message?.conversation || msg.message?.extendedTextMessage?.text || ''
MessageText(payload) ==
    IF payload.conversation # << >> THEN payload.conversation
    ELSE payload.extendedText

\* The three texts handleMessage sends
RegistrationReply(phone) ==
    <<"Your ID is not registered.\n\nYour WhatsApp ID: ">> \o phone
        \o <<"\n\nGo to Settings > WhatsApp in OptimusHQ and enter this ID in the phone field, then save.">>

GenericFailure == <<"Sorry, I encountered an error. Please try again.">>

\* new Error(stderr || `Claude exited with code ${code}`)
ExitError(code, stderr) ==
    IF stderr # << >> THEN stderr ELSE <<"Claude exited with code ", code>>

TimeoutError == <<"Request timed out">>

SpawnFailure == <<"spawn claude ENOENT">>

\* ---------------------------------------------------------- environment

Msg(fromMe, present, conversation, extendedText, remoteJid) ==
    [fromMe |-> fromMe,
     message |-> [present |-> present, conversation |-> conversation,
                  extendedText |-> extendedText],
     remoteJid |-> remoteJid]

DirectJid == <<"1", ":", "9", DirectSuffix>>

LidJid == <<"7", LidSuffix>>

\* proto.IWebMessageInfo, as far as the service reads it: one message for
\* each way through the loop's filter and handleMessage's early returns, and
\* two that reach the lookup.
Messages ==
    { Msg(TRUE,  TRUE,  <<"q">>, << >>, DirectJid),
      Msg(FALSE, FALSE, << >>,   << >>, DirectJid),
      Msg(FALSE, TRUE,  <<"q">>, << >>, << >>),
      Msg(FALSE, TRUE,  <<"q">>, << >>, <<"1", GroupSuffix>>),
      Msg(FALSE, TRUE,  <<"q">>, << >>, <<DirectSuffix>>),
      Msg(FALSE, TRUE,  <<"q">>, << >>, <<"1", "@broadcast">>),
      Msg(FALSE, TRUE,  << >>,   << >>, DirectJid),
      Msg(FALSE, TRUE,  <<"q">>, <<"e">>, DirectJid),
      Msg(FALSE, TRUE,  << >>,   <<"e">>, LidJid) }

\* What onUserLookup may resolve with: null, a result whose userId is empty,
\* a result with a userId.
LookupResults == {"null", "emptyUserId", "user"}

\* What the backend may write: stdout, stderr, and its exit code (null when a
\* signal ended it).
Stdouts == { << >>, <<" ">>, <<"a">>, <<" ", "a", " ">> }

Stderrs == { << >>, <<"boom">> }

ExitCodes == {"0", "1", "null"}

\* ------------------------------------------------------- message router

\* A task is the run of the async messages.upsert handler on one notify
\* event.  pc is the await it is suspended at:
\*   "next"      between two messages of the batch (the for loop)
\*   "lookup"    await this.onUserLookup(phone)
\*   "regSend"   await this.sendMessage(jid, registration reply)
\*   "subscribe" await this.socket?.presenceSubscribe(jid)
\*   "composing" await this.socket?.sendPresenceUpdate('composing', jid)
\*   "dispatch"  await this.askClaude(...)
\*   "paused"    await this.socket?.sendPresenceUpdate('paused', jid)
\*   "send"      await this.sendMessage(jid, response)
\*   "errSend"   the catch block's await this.sendMessage(jid, generic failure)
\*   "done"      the handler returned;  "rejected": the handler's promise rejected
\* left: messages of the batch not yet reached.  The other fields belong to
\* the message being handled and are reset when handleMessage returns:
\* jid, phone, text, userId, response are handleMessage's locals, fromMe and
\* present are msg.key.fromMe and whether msg.message is there;
\* drop is why the last message was dropped before the try block ("none" if
\* it was not);
\* auth is "none" before the lookup, then "absent", "ok" or "threw";
\* outcome is "none", then how askClaude's promise settled;
\* sends, presence, lookups, spawned are the calls made for the message on the
\* transport (sendMessage, presence), the lookup collaborator and spawn.
NoUser == "nouser"

NewTask(n) ==
    [pc |-> "next", left |-> n, jid |-> << >>, phone |-> << >>,
     text |-> << >>, userId |-> NoUser, auth |-> "none", outcome |-> "none",
     response |-> << >>, sends |-> << >>, presence |-> << >>,
     lookups |-> 0, spawned |-> 0, fromMe |-> FALSE, present |-> TRUE,
     drop |-> "none"]

\* handleMessage returned: the loop goes on, or the handler returns.  Of the
\* message only the lookup's answer is remembered, until the next message.
FinishMessage(tk) ==
    [NewTask(tk.left) EXCEPT !.pc = IF tk.left > 0 THEN "next" ELSE "done",
                             !.auth = tk.auth]

\* The message is dropped before the try block: the loop's `continue`, or
\* one of handleMessage's early returns.
Drop(tk, why) == [FinishMessage(tk) EXCEPT !.drop = why]

\* sendMessage(jid, text): `if (!this.socket) return;`, else the transport's
\* sendMessage is called and awaited at `pc`.
SendMessage(tk, text, pc) ==
    IF socket = NoSocket
    THEN FinishMessage(tk)
    ELSE [tk EXCEPT !.pc = pc, !.sends = Append(@, text)]

\* A catch block that tries the backend once more after a failed dispatch.
EnterCatchRetry(tk, err) ==
    IF tk.outcome \in {"TimedOut", "ProcessFailure", "SpawnError"} /\ tk.spawned = 1
    THEN [tk EXCEPT !.pc = "dispatch", !.spawned = @ + 1]
    ELSE SendMessage(tk, GenericFailure, "errSend")

\* The catch block: err goes to console.error, the generic failure message
\* is sent.
EnterCatch(tk, err) == SendMessage(tk, GenericFailure, "errSend")

\* await this.sendMessage(jid, response)
EnterSend(tk) == SendMessage(tk, tk.response, "send")

\* await this.socket?.sendPresenceUpdate('paused', jid)
EnterPaused(tk) ==
    IF socket = NoSocket
    THEN EnterSend(tk)
    ELSE [tk EXCEPT !.pc = "paused", !.presence = Append(@, "paused")]

\* await this.askClaude(text, phone, userId): the promise's executor spawns
\* the child and starts the timer.
EnterDispatch(tk) == [tk EXCEPT !.pc = "dispatch", !.spawned = @ + 1]

\* The 'composing' signal left out.
EnterComposingSkipped(tk) == EnterDispatch(tk)

\* await this.socket?.sendPresenceUpdate('composing', jid)
EnterComposing(tk) ==
    IF socket = NoSocket
    THEN EnterDispatch(tk)
    ELSE [tk EXCEPT !.pc = "composing", !.presence = Append(@, "composing")]

\* await this.socket?.presenceSubscribe(jid)
EnterSubscribe(tk) ==
    IF socket = NoSocket
    THEN EnterComposing(tk)
    ELSE [tk EXCEPT !.pc = "subscribe", !.presence = Append(@, "subscribe")]

\* After the lookup, without the `if (!userId)` block.
AfterLookupNoGate(tk) == EnterSubscribe(tk)

\* After the lookup: `if (!userId)` sends the registration reply and returns,
\* otherwise the typing indicator is sent.
AfterLookup(tk) ==
    IF tk.userId = NoUser
    THEN SendMessage(tk, RegistrationReply(tk.phone), "regSend")
    ELSE EnterSubscribe(tk)

\* The try block up to its first await.
EnterTry(tk) ==
    IF onUserLookup
    THEN [tk EXCEPT !.pc = "lookup", !.lookups = @ + 1]
    ELSE AfterLookup([tk EXCEPT !.auth = "absent"])

\* handleMessage called on every message of the batch: the loop without
\* its filter, handleMessage without its group test.
HandleMessageUnfiltered(tk, m) ==
    LET t0 == [tk EXCEPT !.left = @ - 1, !.auth = "none", !.drop = "none"]
        jid == m.remoteJid
        phone == ResolvePhone(jid)
        text == MessageText(m.message)
    IN  IF phone = << >> THEN Drop(t0, "noPhone")
        ELSE IF text = << >> THEN Drop(t0, "noText")
        ELSE EnterTry([t0 EXCEPT !.jid = jid, !.phone = phone, !.text = text,
                                 !.fromMe = m.fromMe,
                                 !.present = m.message.present])

\* One turn of the for loop on message m: the loop's filter, then
\* handleMessage up to its first await.
HandleMessage(tk, m) ==
    LET t0 == [tk EXCEPT !.left = @ - 1, !.auth = "none", !.drop = "none"]
        jid == m.remoteJid
        phone == ResolvePhone(jid)
        text == MessageText(m.message)
    IN  IF ~m.message.present THEN Drop(t0, "noPayload")
        ELSE IF m.fromMe THEN Drop(t0, "fromMe")
        ELSE IF IgnoredJid(jid)
             THEN Drop(t0, IF jid = << >> THEN "noJid" ELSE "group")
        ELSE IF phone = << >> THEN Drop(t0, "noPhone")
        ELSE IF text = << >> THEN Drop(t0, "noText")
        ELSE EnterTry([t0 EXCEPT !.jid = jid, !.phone = phone, !.text = text,
                                 !.fromMe = m.fromMe,
                                 !.present = m.message.present])

\* const systemPrompt = `... User ID: ${userId}\nPhone: ${phone}`
SystemPrompt(userId, phone) ==
    <<"You are a helpful assistant providing status updates on projects via WhatsApp.\nYou have access to project-manager MCP tools to check project status, sessions, and activity.\n\nWhen asked about projects:\n- Use get_project_status to check specific project activity\n- Use list_projects to see all available projects\n- Use search_memory to find relevant information\n\nKeep responses concise for WhatsApp (under 1000 chars when possible).\nUse plain text formatting, no markdown.\n\nUser ID: ",
      userId, "\nPhone: ">> \o phone

\* this.onGetMcpConfig ? this.onGetMcpConfig() : ''
McpConfigPath ==
    IF onGetMcpConfig.set THEN onGetMcpConfig.path ELSE << >>

\* Array.prototype.splice(start, 0, ...items)
Splice(arr, start, items) ==
    SubSeq(arr, 1, start) \o items \o SubSeq(arr, start + 1, Len(arr))

\* The argument list with the pair inserted before the '--' separator.
BuildArgsPairBeforeSeparator(question, systemPrompt, mcpConfigPath) ==
    LET args == << <<"--print">>,
                   <<"--model">>, <<"sonnet">>,
                   <<"--dangerously-skip-permissions">>,
                   <<"--system-prompt">>, systemPrompt,
                   <<"--max-turns">>, <<"5">>,
                   <<"--">>, question >>
    IN  IF mcpConfigPath # << >>
        THEN Splice(args, 8, << <<"--mcp-config">>, mcpConfigPath >>)
        ELSE args

\* askClaude's argument list: the literal, then `args.splice(4, 0, ...)`
\* when mcpConfigPath is not empty.
BuildArgs(question, systemPrompt, mcpConfigPath) ==
    LET args == << <<"--print">>,
                   <<"--model">>, <<"sonnet">>,
                   <<"--dangerously-skip-permissions">>,
                   <<"--system-prompt">>, systemPrompt,
                   <<"--max-turns">>, <<"5">>,
                   <<"--">>, question >>
    IN  IF mcpConfigPath # << >>
        THEN Splice(args, 4, << <<"--mcp-config">>, mcpConfigPath >>)
        ELSE args

\* The child process, the timer and the promise of one askClaude call.
\* task: the task that called.  current: that task is still handling the
\* message the call was made for.  child: "running", "exited" (its close
\* event was delivered) or "failed" (it never started: the error event was
\* delivered).  killed: child.kill() was called.  timer: the 120 s timeout is
\* pending.  settled: the promise is resolved or rejected.
\* mcpConfigPath: askClaude's local.  args, env: what spawn was given.
NewDispatch(t, tk) ==
    [task |-> t, current |-> TRUE, child |-> "running", killed |-> FALSE,
     timer |-> TRUE, settled |-> FALSE,
     mcpConfigPath |-> McpConfigPath,
     args |-> BuildArgs(tk.text, SystemPrompt(tk.userId, tk.phone), McpConfigPath),
     env |-> [USER_ID |-> tk.userId]]

\* Nothing more can happen to it: no process, no timer, no awaiting caller.
Inert(dp) == dp.child # "running" /\ ~dp.timer /\ ~dp.current

Idle(tk) == tk.pc \in {"next", "done", "rejected"}

\* The dispatches after task t has become tk: a task that has just reached
\* askClaude gets its dispatch, a task that has left the message leaves its
\* dispatch behind.
DispatchesAfter(dsp, t, tk) ==
    LET added == IF tk.pc = "dispatch" /\ tasks[t].pc # "dispatch"
                 THEN Append(dsp, NewDispatch(t, tk)) ELSE dsp
        left == [d \in 1..Len(added) |->
                    IF added[d].task = t /\ Idle(tk)
                    THEN [added[d] EXCEPT !.current = FALSE] ELSE added[d]]
    IN  SelectSeq(left, LAMBDA dp : ~Inert(dp))

\* A step of task t that gives up the session handle when the message is done.
TaskStepClearsHandle(t, tk) ==
    /\ tasks' = [tasks EXCEPT ![t] = tk]
    /\ dispatches' = DispatchesAfter(dispatches, t, tk)
    /\ socket' = IF Idle(tk) THEN NoSocket ELSE socket
    /\ UNCHANGED <<onUserLookup, onGetMcpConfig, received, stimuli>>
    /\ UNCHANGED <<status, qrCode, initializing, inflight, timers, subs,
                   live, logouts, caller, last>>

\* A step of task t, which becomes tk.
TaskStep(t, tk) ==
    /\ tasks' = [tasks EXCEPT ![t] = tk]
    /\ dispatches' = DispatchesAfter(dispatches, t, tk)
    /\ UNCHANGED <<onUserLookup, onGetMcpConfig, received, stimuli>>
    /\ UNCHANGED supervisorVars

\* setUserLookup(fn)
SetUserLookup ==
    /\ ~onUserLookup
    /\ onUserLookup' = TRUE
    /\ UNCHANGED <<onGetMcpConfig, tasks, dispatches, received, stimuli>>
    /\ UNCHANGED supervisorVars

\* What a generator given to setMcpConfigGenerator may return: the empty
\* string or a path.
McpConfigPaths == { << >>, <<"/mcp.json">> }

\* setMcpConfigGenerator(fn), fn returning `path`
SetMcpConfigGenerator(path) ==
    /\ onGetMcpConfig = NoGenerator
    /\ onGetMcpConfig' = [set |-> TRUE, path |-> path]
    /\ UNCHANGED <<onUserLookup, tasks, dispatches, received, stimuli>>
    /\ UNCHANGED supervisorVars

\* A live socket delivers messages.upsert: `if (type !== 'notify') return;`,
\* else the loop starts on a batch of n messages.
MessagesUpsert(s, type, n) ==
    /\ s \in live
    /\ IF type # "notify"
       THEN UNCHANGED <<tasks, received>>
       ELSE /\ received' = received + n
            /\ tasks' = Append(tasks, NewTask(n))
    /\ UNCHANGED <<onUserLookup, onGetMcpConfig, dispatches, stimuli>>
    /\ UNCHANGED supervisorVars

\* The loop going on without awaiting handleMessage.
NextMessageNoAwait(t, m) ==
    /\ tasks[t].left > 0
    /\ TaskStep(t, HandleMessage(tasks[t], m))

\* The loop held back while another handler is at work on a message.
NextMessageExclusive(t, m) ==
    /\ tasks[t].pc = "next"
    /\ tasks[t].left > 0
    /\ \A u \in 1..Len(tasks) : u # t => Idle(tasks[u])
    /\ TaskStep(t, HandleMessage(tasks[t], m))

\* The loop reaches the next message of the batch.
NextMessage(t, m) ==
    /\ tasks[t].pc = "next"
    /\ tasks[t].left > 0
    /\ TaskStep(t, HandleMessage(tasks[t], m))

\* onUserLookup(phone) resolved.
LookupResolve(t, result) ==
    /\ tasks[t].pc = "lookup"
    /\ TaskStep(t, AfterLookup([tasks[t] EXCEPT
                        !.auth = IF result = "user" THEN "ok" ELSE "absent",
                        !.userId = IF result = "user" THEN "u1" ELSE NoUser]))

\* An awaited call inside the try block rejected: the lookup, a presence
\* call, or the send of the registration reply or of the response.
TryReject(t) ==
    /\ tasks[t].pc \in {"lookup", "regSend", "subscribe", "composing", "paused", "send"}
    /\ TaskStep(t, EnterCatch(
            [tasks[t] EXCEPT !.auth = IF tasks[t].pc = "lookup" THEN "threw" ELSE @],
            <<"rejected: ", tasks[t].pc>>))

\* An awaited transport call resolved.
TransportResolve(t) ==
    /\ tasks[t].pc \in {"regSend", "subscribe", "composing", "paused", "send", "errSend"}
    /\ TaskStep(t, CASE tasks[t].pc = "subscribe" -> EnterComposing(tasks[t])
                     [] tasks[t].pc = "composing" -> EnterDispatch(tasks[t])
                     [] tasks[t].pc = "paused"    -> EnterSend(tasks[t])
                     [] OTHER                     -> FinishMessage(tasks[t]))

\* The send in the catch block rejected: handleMessage rejects, and with it
\* the messages.upsert handler; the rest of the batch is never reached.
CatchReject(t) ==
    /\ tasks[t].pc = "errSend"
    /\ TaskStep(t, [FinishMessage(tasks[t]) EXCEPT !.pc = "rejected"])

\* The promise settled again by every call of resolve or reject.
SettledLastWins(d, dp, outcome, value) ==
    LET t == dispatches[d].task
        tk == [tasks[t] EXCEPT !.outcome = outcome]
        tk1 == IF outcome = "Success"
               THEN EnterPaused([tk EXCEPT !.response = value])
               ELSE EnterCatch(tk, value)
        dsp == [dispatches EXCEPT ![d] = [dp EXCEPT !.settled = TRUE]]
    IN  /\ tasks' = [tasks EXCEPT ![t] = tk1]
        /\ dispatches' = DispatchesAfter(dsp, t, tk1)
        /\ UNCHANGED <<onUserLookup, onGetMcpConfig, received, stimuli>>
        /\ UNCHANGED supervisorVars

\* askClaude's promise is resolved or rejected: the first call wins, and
\* handleMessage runs on to its next await; a later call changes nothing.
Settled(d, dp, outcome, value) ==
    LET t == dispatches[d].task
        tk == [tasks[t] EXCEPT !.outcome = outcome]
        tk1 == IF outcome = "Success"
               THEN EnterPaused([tk EXCEPT !.response = value])
               ELSE EnterCatch(tk, value)
        dsp == [dispatches EXCEPT ![d] = [dp EXCEPT !.settled = TRUE]]
    IN  /\ IF dispatches[d].settled
           THEN /\ UNCHANGED tasks
                /\ dispatches' = SelectSeq(dsp, LAMBDA x : ~Inert(x))
           ELSE /\ tasks' = [tasks EXCEPT ![t] = tk1]
                /\ dispatches' = DispatchesAfter(dsp, t, tk1)
        /\ UNCHANGED <<onUserLookup, onGetMcpConfig, received, stimuli>>
        /\ UNCHANGED supervisorVars

\* The close handler's verdict: `if (code === 0 && stdout.trim())` resolve
\* with stdout.trim(), else reject.
CloseResult(code, stdout, stderr) ==
    IF code = "0" /\ Trim(stdout) # << >>
    THEN [outcome |-> "Success", value |-> Trim(stdout)]
    ELSE [outcome |-> "ProcessFailure", value |-> ExitError(code, stderr)]

\* child.on('close'): the child exited with `code`, having written stdout
\* and stderr.
ChildClose(d, code, stdout, stderr) ==
    /\ dispatches[d].child = "running"
    /\ LET dp == [dispatches[d] EXCEPT !.child = "exited"]
           r == CloseResult(code, stdout, stderr)
       IN  Settled(d, dp, r.outcome, r.value)

\* child.on('error'): the child could not be spawned.
ChildError(d) ==
    /\ dispatches[d].child = "running"
    /\ ~dispatches[d].killed
    /\ Settled(d, [dispatches[d] EXCEPT !.child = "failed"],
               "SpawnError", SpawnFailure)

\* The 120 s timer fires (it is never cleared): child.kill(), then reject.
DispatchTimeout(d) ==
    /\ dispatches[d].timer
    /\ Settled(d, [dispatches[d] EXCEPT
                        !.timer = FALSE,
                        !.killed = dispatches[d].child = "running"],
               "TimedOut", TimeoutError)

\* The supervisor: the caller's calls, the transport's connection events, the
\* reconnect timer.
NextSupervisor ==
    \/ CallInitialize
    \/ ReconnectTimer
    \/ InitializeResume
    \/ InitializeThrow
    \/ \E s \in SockIds, qr \in BOOLEAN, conn \in {"none", "open", "close"},
          reason \in Reasons, hasUser \in BOOLEAN :
            ConnectionUpdate(s, qr, conn, reason, hasUser)
    \/ CallDisconnect
    \/ \E s \in SockIds : LogoutResolve(s)
    \/ \E s \in SockIds : LogoutReject(s)

\* The transport delivers a messages.upsert event, at most `max` messages in
\* notify events over the run.
Delivery(max) ==
    \E s \in SockIds, type \in {"notify", "append"}, n \in 1..max :
        /\ type = "notify" => received + n <= max
        /\ MessagesUpsert(s, type, n)

\* The router at work: the owner sets the lookup, the loop goes on, the
\* collaborators and the backend answer.
NextHandling ==
    \/ SetUserLookup
    \/ \E t \in 1..Len(tasks), m \in Messages : NextMessage(t, m)
    \/ \E t \in 1..Len(tasks), result \in LookupResults : LookupResolve(t, result)
    \/ \E t \in 1..Len(tasks) : TryReject(t)
    \/ \E t \in 1..Len(tasks) : TransportResolve(t)
    \/ \E t \in 1..Len(tasks) : CatchReject(t)
    \/ \E d \in 1..Len(dispatches), code \in ExitCodes, stdout \in Stdouts,
          stderr \in Stderrs : ChildClose(d, code, stdout, stderr)
    \/ \E d \in 1..Len(dispatches) : ChildError(d)
    \/ \E d \in 1..Len(dispatches) : DispatchTimeout(d)

\* The router: message events, the collaborators' and the backend's answers.
NextMessages == Delivery(MaxMessages) \/ NextHandling

\* The session as the router meets it: it is created, it closes (the handle
\* is cleared unless the reason is loggedOut) and it is created again.
NextSession ==
    \/ CallInitialize
    \/ ReconnectTimer
    \/ InitializeResume
    \/ \E s \in SockIds, reason \in Reasons :
            ConnectionUpdate(s, FALSE, "close", reason, FALSE)

NextRouter == NextMessages \/ NextSession

\* Several messages over one session that stays up.
NextConcurrent ==
    \/ Delivery(MaxConcurrent)
    \/ NextHandling
    \/ CallInitialize
    \/ InitializeResume

Next ==
    \/ NextSupervisor
    \/ NextMessages
    \/ \E path \in McpConfigPaths : SetMcpConfigGenerator(path)

\* The whole service.
Spec == Init /\ [][Next]_vars

\* The supervisor with no message traffic (the router never writes the
\* supervisor's variables).
SpecSupervisor == Init /\ [][NextSupervisor]_vars

\* The router over a session that comes and goes.
SpecRouter == Init /\ [][NextRouter]_vars

\* The router handling several messages at a time.
SpecConcurrent == Init /\ [][NextConcurrent]_vars

\* ------------------------------------------------------------ the claims

\* The caller's initialize() call was this step.
InitializeCalled ==
    /\ stimuli' = stimuli + 1
    /\ last' \in {"initialize:noop", "initialize:start"}

\* A session is created in this step (makeWASocket returned).
SessionCreated == Len(subs') > Len(subs)

\* C1: an initialize() call made while the service is initializing or holds a
\* session handle returns at once: no field changes, no initialization starts
\* (so no session will be created for it), no handler is registered; every
\* session ever created has exactly one set of handlers; and as long as
\* initialize() is the only call the caller has made, at most one
\* initialization is in flight and at most one session is live.
C1_InitializeIdempotent ==
    /\ [](\A s \in 1..Len(subs) : subs[s] = 1)
    /\ [](caller = "fresh" => inflight <= 1 /\ Cardinality(live) <= 1)
    /\ [][(InitializeCalled /\ (initializing \/ socket # NoSocket))
            => UNCHANGED <<socket, status, qrCode, initializing, inflight,
                           timers, subs, live, logouts>>]_vars

\* C1 witness: a second initialize() call arrived while the first was loading
\* the credentials, and one initialization is in flight.
C1_Witness ==
    /\ last = "initialize:noop"
    /\ initializing
    /\ inflight = 1
    /\ socket = NoSocket

\* A connection.update event with connection = 'close' and a reason other
\* than loggedOut was handled in this step.
ClosedForOtherReason == stimuli' = stimuli + 1 /\ last' = "close:other"

ClosedLoggedOut == stimuli' = stimuli + 1 /\ last' = "close:loggedOut"

\* The reconnect timer fired in this step.
TimerFired == timers' = timers - 1

\* useMultiFileAuthState resolved in this step and initialize() ran on.
InitializeResumed == inflight' = inflight - 1 /\ last' = "resume"

\* C2: a close event with a reason other than loggedOut clears the handle and
\* schedules exactly one reconnect timer, starting nothing at once; when the
\* timer fires next, with no other supervisor step in between, exactly one
\* initialization starts; and an initialization that runs on creates exactly
\* one session, which becomes the held one.
C2_ReconnectOnce ==
    /\ [][ClosedForOtherReason
            => /\ socket' = NoSocket
               /\ timers' = timers + 1
               /\ inflight' = inflight
               /\ ~SessionCreated]_vars
    /\ [][(TimerFired /\ last = "close:other")
            => inflight' = inflight + 1 /\ initializing' /\ ~SessionCreated]_vars
    /\ [][InitializeResumed
            => /\ Len(subs') = Len(subs) + 1
               /\ socket' = Len(subs')
               /\ live' = live \cup {socket'}
               /\ ~initializing']_vars

\* C2 witness: one initialize() call and one close event, and the second
\* session has just been created: the timer's initialize() made it.
C2_Witness ==
    /\ stimuli = 2
    /\ last = "resume"
    /\ Len(subs) = 2
    /\ socket = 2
    /\ timers = 0

\* The service holds the handle of a session that has closed: the close
\* event's reason was loggedOut.
LoggedOut == socket # NoSocket /\ socket \notin live

\* A disconnect() call ended in this step (it returned or it rejected).
DisconnectEnded ==
    \/ \E s \in SockIds : logouts'[s] < logouts[s]
    \/ stimuli' = stimuli + 1 /\ last' = "disconnect:cleared"

\* C3: a close event with reason loggedOut schedules no reconnect and starts
\* nothing; while the service is logged out no session is created; and a
\* disconnect() made while logged out leaves the guard of initialize() open,
\* so that the initialize() that follows starts a new session.
C3_LoggedOutTerminal ==
    /\ [][ClosedLoggedOut => timers' = timers /\ inflight' = inflight]_vars
    /\ [][LoggedOut => ~SessionCreated]_vars
    /\ [][(LoggedOut /\ DisconnectEnded)
            => socket' = NoSocket /\ ~initializing']_vars

\* C4: once disconnect() has been called, a session is created only after
\* the caller has called initialize() again.
C4_DisconnectTerminal ==
    [][SessionCreated => caller # "disconnected"]_vars

\* The Session in its initial empty form.
EmptySession ==
    /\ socket = NoSocket
    /\ getStatus = [connected |-> FALSE, phoneNumber |-> Absent, qrCode |-> Absent]
    /\ qrCode = Absent
    /\ ~isInitializing

\* C5: disconnect() requests logout of the held session when there is one,
\* and when the call ends the Session is in its initial empty form.
C5_DisconnectClears ==
    /\ [][(stimuli' = stimuli + 1 /\ last' = "disconnect:logout")
            => logouts'[socket] = logouts[socket] + 1]_vars
    /\ [][DisconnectEnded => EmptySession']_vars

\* C6: at most one session created by the service is live.
C6_OneLiveSession ==
    Cardinality({s \in live : subs[s] > 0}) <= 1

\* C7: getStatus() reports a qrCode only while not connected and a pairing
\* payload is cached; a connection-open event clears the cached payload.
C7_QrOnlyWhileUnpaired ==
    /\ [](getStatus.qrCode # Absent => ~getStatus.connected /\ qrCode # Absent)
    /\ [][(stimuli' = stimuli + 1 /\ last' = "open")
            => qrCode' = Absent /\ getStatus'.connected]_vars

\* C7 witness: a pairing payload arrived while connected, and getStatus()
\* does not report it.
C7_Witness ==
    /\ status.connected
    /\ qrCode # Absent
    /\ getStatus.qrCode = Absent

\* `part` occurs in `text`
Contains(text, part) ==
    \E i \in 0..(Len(text) - Len(part)) :
        SubSeq(text, i + 1, i + Len(part)) = part

\* The identifiers of the two addresses that resolve, as the spec gives them:
\* the direct address without its suffix and device segment, the
\* linked-device id itself.
ExpectedIdentifier(jid) ==
    IF jid = DirectJid THEN <<"1">> ELSE <<"7">>

\* The lookup of task t's message ended in this step without an authorization
\* result (null, or a result with no userId), or there is no lookup
\* collaborator and the message reached the `if (!userId)` test.
FoundUnauthorized(t) ==
    /\ tasks[t].pc \in {"lookup", "next"}
    /\ tasks'[t].auth = "absent"
    /\ tasks'[t] # tasks[t]

\* The registration reply for the message of task record tk is the one text
\* sent for it so far.
RegistrationSent(tk) ==
    /\ tk.pc = "regSend"
    /\ Len(tk.sends) = 1
    /\ tk.sends[1] = RegistrationReply(ExpectedIdentifier(tk.jid))
    /\ Contains(tk.sends[1], ExpectedIdentifier(tk.jid))

\* For a message without authorization result no presence signal is sent and
\* no subprocess is spawned.
UnauthorizedNeverDispatched ==
    \A t \in 1..Len(tasks) :
        tasks[t].auth = "absent" =>
            /\ tasks[t].presence = << >>
            /\ tasks[t].spawned = 0
            /\ \A d \in 1..Len(dispatches) :
                  dispatches[d].task = t => ~dispatches[d].current
            /\ tasks[t].pc \in {"regSend", "errSend", "next", "done", "rejected"}

\* C8 as stated: whenever a message's lookup ends without an authorization
\* result the registration reply with the resolved identifier is sent, and
\* the message gets no presence signal and no subprocess.
C8_AlwaysRegistrationReply ==
    /\ []UnauthorizedNeverDispatched
    /\ [][\A t \in 1..Len(tasks) :
            FoundUnauthorized(t) => RegistrationSent(tasks'[t])]_vars

\* C8 amended: the registration reply is sent whenever the service holds a
\* session handle at that moment (without one sendMessage returns and nothing
\* is sent); it is the first text sent for the message; no presence signal, no
\* subprocess.
C8_RegistrationReplyIfSession ==
    /\ []UnauthorizedNeverDispatched
    /\ [](\A t \in 1..Len(tasks) :
            (tasks[t].auth = "absent" /\ tasks[t].sends # << >>) =>
                tasks[t].sends[1] = RegistrationReply(ExpectedIdentifier(tasks[t].jid)))
    /\ [][\A t \in 1..Len(tasks) :
            FoundUnauthorized(t) =>
                IF socket # NoSocket
                THEN RegistrationSent(tasks'[t])
                ELSE tasks'[t].pc \in {"next", "done"} /\ tasks'[t].sends = << >>]_vars

\* C8 witness: the lookup found no user for the linked-device address and the
\* registration reply is on its way.
C8_Witness ==
    \E t \in 1..Len(tasks) :
        /\ tasks[t].auth = "absent"
        /\ tasks[t].lookups = 1
        /\ tasks[t].jid = LidJid
        /\ RegistrationSent(tasks[t])

\* C9: at most one text is sent through the transport for a message.
C9_AtMostOneSend ==
    \A t \in 1..Len(tasks) : Len(tasks[t].sends) <= 1

\* C10: for an authorized message, after Success every text sent is the
\* response, and after any other dispatch result every text sent is the
\* generic failure message.
C10_ReplyMatchesDispatchResult ==
    \A t \in 1..Len(tasks) :
        /\ tasks[t].outcome = "Success" =>
              \A i \in 1..Len(tasks[t].sends) : tasks[t].sends[i] = tasks[t].response
        /\ tasks[t].outcome \in {"TimedOut", "ProcessFailure", "SpawnError"} =>
              \A i \in 1..Len(tasks[t].sends) : tasks[t].sends[i] = GenericFailure

\* The dispatch results other than Success.
DispatchFailures == {"TimedOut", "ProcessFailure", "SpawnError"}

\* C11: a failed presence call changes nothing for the user: for an
\* authorized message the dispatcher has been invoked before anything is sent,
\* and the generic failure message is the first text sent only if the
\* dispatch itself failed.
C11_PresenceBestEffort ==
    \A t \in 1..Len(tasks) :
        (tasks[t].auth = "ok" /\ tasks[t].sends # << >>) =>
            /\ tasks[t].spawned = 1
            /\ tasks[t].sends[1] = GenericFailure
                  => tasks[t].outcome \in DispatchFailures

\* C12: when the TimedOut result has been delivered to handleMessage, the
\* child process of that dispatch has been sent the kill signal and is no
\* longer running.
C12_TimeoutTerminates ==
    \A d \in 1..Len(dispatches) :
        (dispatches[d].current /\ tasks[dispatches[d].task].outcome = "TimedOut") =>
            /\ dispatches[d].killed
            /\ dispatches[d].child # "running"

\* The dispatches made for the message task t is handling.
CurrentDispatches(t) ==
    {d \in 1..Len(dispatches) : dispatches[d].task = t /\ dispatches[d].current}

\* The backend was given the user id: in the system prompt and in USER_ID.
UserIdEmbedded(dp, userId) ==
    /\ userId # NoUser
    /\ dp.env.USER_ID = userId
    /\ \E i \in 1..(Len(dp.args) - 1) :
          /\ dp.args[i] = <<"--system-prompt">>
          /\ Contains(dp.args[i + 1], <<userId>>)

\* Where the handling of an authorized message stands, await by await: what
\* has been done before each await and what has not.
StepsInOrder(t) ==
    LET tk == tasks[t]
        before(sig) == \A i \in 1..Len(tk.presence) : tk.presence[i] # sig
    IN  /\ tk.pc \in {"subscribe", "composing", "dispatch", "paused", "send"}
              => tk.auth = "ok" /\ tk.lookups = 1 /\ tk.userId # NoUser
        /\ tk.pc = "subscribe"
              => /\ tk.presence = <<"subscribe">>
                 /\ tk.spawned = 0 /\ tk.outcome = "none" /\ tk.sends = << >>
        /\ tk.pc = "composing"
              => /\ tk.presence[Len(tk.presence)] = "composing"
                 /\ before("paused")
                 /\ tk.spawned = 0 /\ tk.outcome = "none" /\ tk.sends = << >>
        /\ tk.pc = "dispatch"
              => /\ before("paused")
                 /\ tk.spawned = 1 /\ tk.outcome = "none" /\ tk.sends = << >>
                 /\ \E d \in CurrentDispatches(t) :
                       /\ CurrentDispatches(t) = {d}
                       /\ ~dispatches[d].settled
                       /\ UserIdEmbedded(dispatches[d], tk.userId)
        /\ tk.pc = "paused"
              => /\ tk.presence[Len(tk.presence)] = "paused"
                 /\ tk.spawned = 1 /\ tk.outcome = "Success" /\ tk.sends = << >>
        /\ tk.pc = "send"
              => /\ tk.spawned = 1 /\ tk.outcome = "Success"
                 /\ tk.sends = <<tk.response>>
        /\ tk.spawned > 0 => tk.auth = "ok"
        /\ tk.outcome # "none" => tk.spawned = 1

\* The place of an await in the order of handleMessage.
StepRank(pc) ==
    CASE pc = "lookup"    -> 1
      [] pc = "subscribe" -> 2
      [] pc = "composing" -> 3
      [] pc = "dispatch"  -> 4
      [] pc = "paused"    -> 5
      [] pc = "send"      -> 6
      [] pc = "regSend"   -> 6
      [] pc = "errSend"   -> 7
      [] OTHER            -> 8

\* C13: an authorized message goes through lookup, 'composing', dispatcher
\* invocation with the user id embedded, dispatcher result, 'paused' and the
\* reply in this order: each is started by the step that completes the one
\* before (a presence signal is left out only when no session handle is held),
\* and the handling never goes back.
C13_StepsInOrder ==
    /\ [](\A t \in 1..Len(tasks) : StepsInOrder(t))
    /\ [][\A t \in 1..Len(tasks) :
            /\ (~Idle(tasks[t]) /\ tasks'[t] # tasks[t])
                  => StepRank(tasks'[t].pc) > StepRank(tasks[t].pc)
            /\ (tasks'[t].pc = "composing" /\ tasks[t].pc # "composing")
                  => tasks[t].pc \in {"lookup", "subscribe"}
            /\ (tasks'[t].pc = "dispatch" /\ tasks[t].pc # "dispatch")
                  => tasks[t].pc = "composing" \/ socket = NoSocket
            /\ (tasks'[t].pc = "paused" /\ tasks[t].pc # "paused")
                  => tasks[t].pc = "dispatch"
            /\ (tasks'[t].pc = "send" /\ tasks[t].pc # "send")
                  => tasks[t].pc = "paused"]_vars

\* C13 witness: the response is being sent after the lookup, both typing
\* signals, the dispatch and the 'paused' signal.
C13_Witness ==
    \E t \in 1..Len(tasks) :
        /\ tasks[t].pc = "send"
        /\ tasks[t].lookups = 1
        /\ tasks[t].presence = <<"subscribe", "composing", "paused">>
        /\ tasks[t].outcome = "Success"
        /\ tasks[t].sends = <<tasks[t].response>>

\* Something was done for the message of task record tk: a lookup, a presence
\* signal, a dispatch or a send.
Handled(tk) ==
    \/ ~Idle(tk)
    \/ tk.lookups > 0
    \/ tk.presence # << >>
    \/ tk.spawned > 0
    \/ tk.sends # << >>

\* The message is one the claim says is dropped: from the bound account,
\* without payload, or from a group address.
DroppedKind(m) ==
    \/ m.fromMe
    \/ ~m.message.present
    \/ Includes(m.remoteJid, GroupSuffix)

\* C14: a message from the bound account, without payload or from a group
\* address is dropped on the spot with its identity unresolved; a message for
\* which a lookup, a presence signal, a dispatch or a send is made is none of
\* these.
C14_DroppedBeforeResolution ==
    \A t \in 1..Len(tasks) :
        /\ Handled(tasks[t]) =>
              /\ ~tasks[t].fromMe
              /\ tasks[t].present
              /\ ~Includes(tasks[t].jid, GroupSuffix)
              /\ tasks[t].drop = "none"
        /\ tasks[t].drop \in {"fromMe", "noPayload", "group"} =>
              ~Handled(tasks[t]) /\ tasks[t].phone = << >>
        /\ (tasks[t].pc = "next" /\ tasks[t].left > 0) =>
              \A m \in Messages :
                  DroppedKind(m) =>
                      /\ HandleMessage(tasks[t], m).drop \in {"fromMe", "noPayload", "group"}
                      /\ ~Handled(HandleMessage(tasks[t], m))

\* C14 witness: a message from a group address has been dropped, and so has
\* been the whole batch.
C14_Witness ==
    \E t \in 1..Len(tasks) :
        /\ tasks[t].drop = "group"
        /\ tasks[t].pc = "done"
        /\ received > 0

\* Addresses: a user part of digits and colons, then one suffix.
UserParts == UNION {[1..k -> {"1", "7", ":"}] : k \in 0..MaxUserLen}

Suffixes == {DirectSuffix, LidSuffix, GroupSuffix, "@broadcast"}

Addresses == {u \o <<x>> : u \in UserParts, x \in Suffixes}

\* p is user part u up to its first colon.
UpToFirstColon(p, u) ==
    /\ Len(p) <= Len(u)
    /\ p = SubSeq(u, 1, Len(p))
    /\ ~Includes(p, ":")
    /\ Len(p) < Len(u) => u[Len(p) + 1] = ":"

\* What the spec says of the address u \o <<x>>: its identifier is id
\* (<< >>: resolution fails).
ResolvesTo(u, x, id) ==
    CASE x = DirectSuffix -> UpToFirstColon(id, u)
      [] x = LidSuffix    -> id = u
      [] OTHER            -> id = << >>

\* A text message with address a, not from the bound account.
TextFrom(a) == Msg(FALSE, TRUE, <<"q">>, << >>, a)

\* C15: the identifier is a function of the address: a direct address gives
\* its user part up to the first colon, a linked-device address its user part
\* as it is, any other address nothing; a message is handled with exactly
\* this identifier, and when it is empty the message is dropped with no
\* lookup, no presence signal, no dispatch and no reply.
C15_IdentityResolution ==
    /\ \A u \in UserParts, x \in Suffixes :
          ResolvesTo(u, x, ResolvePhone(u \o <<x>>))
    /\ \A t \in 1..Len(tasks) :
          /\ Handled(tasks[t]) =>
                /\ tasks[t].phone # << >>
                /\ tasks[t].phone = ResolvePhone(tasks[t].jid)
                /\ EndsWith(tasks[t].jid, DirectSuffix) \/ EndsWith(tasks[t].jid, LidSuffix)
          /\ tasks[t].drop = "noPhone" => ~Handled(tasks[t])
          /\ (tasks[t].pc = "next" /\ tasks[t].left > 0 /\ onUserLookup) =>
                \A a \in Addresses :
                    LET tk == HandleMessage(tasks[t], TextFrom(a))
                    IN  IF ResolvePhone(a) = << >> \/ Includes(a, GroupSuffix)
                        THEN ~Handled(tk)
                        ELSE tk.pc = "lookup" /\ tk.phone = ResolvePhone(a)

\* C15 witness: the message from the direct address with a device segment is
\* being looked up under the identifier before the colon.
C15_Witness ==
    \E t \in 1..Len(tasks) :
        /\ tasks[t].pc = "lookup"
        /\ tasks[t].jid = <<"1", ":", "9", DirectSuffix>>
        /\ tasks[t].phone = <<"1">>

\* The options of the backend that come first, and the pair for a path.
LeadingOptions ==
    << <<"--print">>, <<"--model">>, <<"sonnet">>,
       <<"--dangerously-skip-permissions">> >>

McpConfigPair(path) ==
    IF path # << >> THEN << <<"--mcp-config">>, path >> ELSE << >>

\* The dispatches whose caller is still handling the message.
Outstanding == {d \in 1..Len(dispatches) : dispatches[d].current}

\* C16 as stated: the argument list is --print, --model <name>,
\* --dangerously-skip-permissions, --system-prompt <text>, --max-turns <n>,
\* then the --mcp-config pair if the path is not empty, then '--' and the
\* question.
C16_PairBeforeSeparator ==
    \A d \in Outstanding :
        LET tk == tasks[dispatches[d].task]
        IN  dispatches[d].args =
                LeadingOptions
                \o << <<"--system-prompt">>, SystemPrompt(tk.userId, tk.phone),
                      <<"--max-turns">>, <<"5">> >>
                \o McpConfigPair(dispatches[d].mcpConfigPath)
                \o << <<"--">>, tk.text >>

\* C16 amended: the --mcp-config pair, present exactly when the path is not
\* empty, sits after --dangerously-skip-permissions and before
\* --system-prompt; every option is followed by its value and the question is
\* the last argument, directly after '--'.
C16_PairBeforeSystemPrompt ==
    \A d \in Outstanding :
        LET tk == tasks[dispatches[d].task]
            args == dispatches[d].args
        IN  /\ args =
                LeadingOptions
                \o McpConfigPair(dispatches[d].mcpConfigPath)
                \o << <<"--system-prompt">>, SystemPrompt(tk.userId, tk.phone),
                      <<"--max-turns">>, <<"5">> >>
                \o << <<"--">>, tk.text >>
            /\ args[Len(args)] = tk.text /\ args[Len(args) - 1] = <<"--">>
            /\ (\E i \in 1..Len(args) : args[i] = <<"--mcp-config">>)
                  <=> dispatches[d].mcpConfigPath # << >>

\* C16 witness: a backend was started with a tool-configuration path.
C16_Witness ==
    \E d \in Outstanding :
        /\ dispatches[d].mcpConfigPath = <<"/mcp.json">>
        /\ dispatches[d].args[5] = <<"--mcp-config">>
        /\ dispatches[d].args[6] = <<"/mcp.json">>
        /\ dispatches[d].child = "running"

\* v is s without the blanks at its two ends.
Trimmed(v, s) ==
    /\ v # << >> => v[1] # " " /\ v[Len(v)] # " "
    /\ \E i \in 0..Len(s) :
          /\ i + Len(v) <= Len(s)
          /\ SubSeq(s, i + 1, i + Len(v)) = v
          /\ \A k \in (1..i) \cup ((i + Len(v) + 1)..Len(s)) : s[k] = " "

\* The result of an exit as the spec gives it.
ExitResultAsSpecified(code, stdout, stderr, r) ==
    IF code = "0" /\ \E k \in 1..Len(stdout) : stdout[k] # " "
    THEN r.outcome = "Success" /\ Trimmed(r.value, stdout)
    ELSE /\ r.outcome = "ProcessFailure"
         /\ IF stderr # << >> THEN r.value = stderr
            ELSE r.value = <<"Claude exited with code ", code>>

\* The result of task t's dispatch was delivered in this step.
ResultDelivered(t) ==
    /\ tasks[t].pc = "dispatch"
    /\ tasks'[t].outcome # "none"

\* C17: a dispatch has one result, the first to come, and nothing that comes
\* later changes it: a spawn failure gives SpawnError while the timeout is
\* still pending, an exit gives Success with the trimmed stdout or
\* ProcessFailure with stderr or the generic text, the timeout gives TimedOut.
C17_OneResultFirstWins ==
    /\ [](\A code \in ExitCodes, stdout \in Stdouts, stderr \in Stderrs :
            ExitResultAsSpecified(code, stdout, stderr,
                                  CloseResult(code, stdout, stderr)))
    /\ [](\A t \in 1..Len(tasks) :
            tasks[t].outcome # "none" =>
                \E d \in CurrentDispatches(t) :
                    /\ CurrentDispatches(t) = {d}
                    /\ dispatches[d].settled
                    /\ tasks[t].outcome = "Success" =>
                          /\ dispatches[d].child = "exited"
                          /\ \E stdout \in Stdouts : Trimmed(tasks[t].response, stdout)
                          /\ tasks[t].response # << >>
                    /\ tasks[t].outcome = "ProcessFailure" => dispatches[d].child = "exited"
                    /\ tasks[t].outcome = "SpawnError" => dispatches[d].child = "failed"
                    /\ tasks[t].outcome = "TimedOut" => ~dispatches[d].timer)
    /\ [][\A t \in 1..Len(tasks) :
            /\ (tasks[t].outcome # "none" /\ ~Idle(tasks'[t]))
                  => /\ tasks'[t].outcome = tasks[t].outcome
                     /\ tasks'[t].response = tasks[t].response
            /\ ResultDelivered(t)
                  => /\ \A d \in CurrentDispatches(t) : ~dispatches[d].settled
                     /\ tasks'[t].outcome = "SpawnError"
                           => \A d \in 1..Len(dispatches') :
                                 (dispatches'[d].task = t /\ dispatches'[d].current)
                                     => dispatches'[d].timer
                     /\ tasks'[t].outcome = "TimedOut"
                           => \A d \in CurrentDispatches(t) : dispatches[d].timer]_vars

\* C17 witness: the backend answered, Success was delivered, and then the
\* timeout fired: the result and the response are what they were.
C17_Witness ==
    \E t \in 1..Len(tasks) :
        /\ tasks[t].outcome = "Success"
        /\ tasks[t].response = <<"a">>
        /\ \E d \in CurrentDispatches(t) :
              /\ dispatches[d].child = "exited"
              /\ ~dispatches[d].timer
              /\ dispatches[d].settled

\* Dispatches whose promise is not settled yet.
Unsettled == {d \in 1..Len(dispatches) : ~dispatches[d].settled}

\* C18: at most one backend process is spawned for a message: a process is
\* spawned only for a message that had none, and none is spawned once the
\* dispatch has a result or a text has been sent for the message.
C18_AtMostOneSpawn ==
    /\ [](\A t \in 1..Len(tasks) :
            /\ tasks[t].spawned <= 1
            /\ Cardinality(CurrentDispatches(t)) = tasks[t].spawned)
    /\ [][\A t \in 1..Len(tasks) :
            ((tasks[t].sends # << >> \/ tasks[t].outcome # "none") /\ ~Idle(tasks'[t]))
                => /\ tasks'[t].spawned = tasks[t].spawned
                   /\ tasks'[t].pc # "dispatch"]_vars
    /\ [][Cardinality(Unsettled') > Cardinality(Unsettled)
            => /\ Cardinality(Unsettled') = Cardinality(Unsettled) + 1
               /\ \E t \in 1..Len(tasks) :
                     tasks[t].spawned = 0 /\ tasks'[t].spawned = 1]_vars

\* C18 witness: the backend failed, the fallback message is being sent, and
\* the one process spawned for the message is all there was.
C18_Witness ==
    \E t \in 1..Len(tasks) :
        /\ tasks[t].pc = "errSend"
        /\ tasks[t].outcome = "ProcessFailure"
        /\ tasks[t].spawned = 1
        /\ tasks[t].sends = <<GenericFailure>>

\* This step belongs to message handling: an upsert event was taken, a
\* handler ran on, or a backend process or its timer reported.
MessageStep ==
    tasks' # tasks \/ dispatches' # dispatches \/ received' # received

\* C19: no step of message handling changes the session: the handle, the
\* connected flag, the phone number, the cached pairing payload and the
\* initializing flag stay as they are, and so does what getStatus() and
\* isInitializing() report.
C19_SessionUntouched ==
    [][MessageStep
        => /\ UNCHANGED <<socket, status, qrCode, initializing>>
           /\ getStatus' = getStatus
           /\ isInitializing' = isInitializing]_vars

\* C19 witness: a message has gone all the way to the send of the response
\* while the service is connected with a phone number bound.
C19_Witness ==
    /\ status.connected
    /\ status.phoneNumber # Absent
    /\ socket # NoSocket
    /\ \E t \in 1..Len(tasks) :
          tasks[t].pc = "send" /\ tasks[t].outcome = "Success"

\* C20: handlers do not exclude each other: while a message is being handled
\* a live session delivers the next notify event, the handler started for it
\* takes its message at once, whatever the other handlers are doing, and a
\* step of one handler leaves the others where they are.
C20_NoMutualExclusion ==
    /\ [](\A s \in live :
            received < MaxConcurrent => ENABLED MessagesUpsert(s, "notify", 1))
    /\ [](\A t \in 1..Len(tasks) :
            (tasks[t].pc = "next" /\ tasks[t].left > 0) =>
                \A m \in Messages : ENABLED NextMessage(t, m))
    /\ [][\A t, u \in 1..Len(tasks) :
            (t # u /\ tasks'[t] # tasks[t]) => tasks'[u] = tasks[u]]_vars

\* C20 witness: two messages that came in two events are both at the
\* dispatch, each with its backend process running.
C20_Witness ==
    \E t, u \in 1..Len(tasks) :
        /\ t # u
        /\ tasks[t].pc = "dispatch" /\ tasks[u].pc = "dispatch"
        /\ \E d \in CurrentDispatches(t), e \in CurrentDispatches(u) :
              /\ d # e
              /\ dispatches[d].child = "running" /\ ~dispatches[d].settled
              /\ dispatches[e].child = "running" /\ ~dispatches[e].settled

\* C21: once the response of a successful dispatch has been handed to the
\* transport, no other text is sent for the message, whether that send
\* fails or not.
C21_NoSendAfterReply ==
    \A t \in 1..Len(tasks) :
        (/\ tasks[t].outcome = "Success"
         /\ tasks[t].sends # << >>
         /\ tasks[t].sends[1] = tasks[t].response)
            => Len(tasks[t].sends) = 1

\* C22: a message whose identity was not resolved or whose sender is not
\* authorized (the lookup found nothing, or failed) never makes the
\* messages.upsert handler reject, which would leave the rest of its batch
\* unhandled.
C22_FailureStaysInMessage ==
    \A t \in 1..Len(tasks) :
        (tasks[t].drop = "noPhone" \/ tasks[t].auth \in {"absent", "threw"})
            => tasks[t].pc # "rejected"

\* The dispatches made by task t (for any message of its batch) whose result
\* is still awaited.
AwaitedDispatches(t) ==
    {d \in 1..Len(dispatches) : dispatches[d].task = t /\ ~dispatches[d].settled}

\* The handler of task t took the next message of its batch in this step.
TookNextMessage(t) == tasks'[t].left < tasks[t].left

\* C23: the messages of a batch are handled one after the other, in batch
\* order: the handler takes the next message only when it is done with the
\* one before (its dispatch has its result, its sends have been awaited), one
\* message at a time, so a batch has at most one dispatch awaited.
C23_BatchInOrder ==
    /\ [](\A t \in 1..Len(tasks) :
            /\ Cardinality(AwaitedDispatches(t)) <= 1
            /\ Cardinality(CurrentDispatches(t)) <= 1
            /\ \A d \in 1..Len(dispatches) :
                  (dispatches[d].task = t /\ ~dispatches[d].current)
                      => dispatches[d].settled)
    /\ [][\A t \in 1..Len(tasks) :
            TookNextMessage(t)
                => /\ tasks[t].pc = "next"
                   /\ tasks'[t].left = tasks[t].left - 1
                   /\ AwaitedDispatches(t) = {}
                   /\ CurrentDispatches(t) = {}
                   /\ tasks[t].sends = << >>]_vars

\* C23 witness: a batch of two: the first message was dispatched and
\* answered (its process has exited, its timer is still pending), and the
\* second is now at its own dispatch.
C23_Witness ==
    \E t \in 1..Len(tasks) :
        /\ tasks[t].left = 0
        /\ tasks[t].pc = "dispatch"
        /\ \E d, e \in 1..Len(dispatches) :
              /\ d < e
              /\ dispatches[d].task = t /\ dispatches[e].task = t
              /\ ~dispatches[d].current /\ dispatches[d].child = "exited"
              /\ dispatches[e].current /\ dispatches[e].child = "running"

\* C24: isInitializing() is true only while an initialize() call is in
\* progress.
C24_FlagFollowsCalls ==
    isInitializing => inflight > 0

\* A close event was handled in this step, and the session the service
\* holds is still live afterwards: the event came from another session.
StaleClose ==
    /\ stimuli' = stimuli + 1
    /\ last' \in {"close:loggedOut", "close:other"}
    /\ socket # NoSocket
    /\ socket \in live'

\* C25: a close event of a session other than the one the service holds
\* leaves the handle, the reported status and the reconnect timers as they
\* are.
C25_StaleEventsIgnored ==
    [][StaleClose
        => /\ socket' = socket
           /\ getStatus' = getStatus
           /\ qrCode' = qrCode
           /\ timers' = timers]_vars

====
